---- MODULE Spec2Model ----
(***************************************************************************)
(* The DevContainer provisioning script setup.sh of skeleton-metronic, in  *)
(* its three copies (the Metronic script, the Next.js skeleton script and  *)
(* the copy embedded in quick-setup.sh), and the seed script it writes     *)
(* and runs.  One action per command of the script; the operator may run   *)
(* the script again once a run has ended.                                  *)
(***************************************************************************)
EXTENDS Integers, Sequences, FiniteSets, TLC

\* ----------------------------------------------------------------- bounds
\* failed connection attempts of one readiness gate
MaxPolls == 3
\* runs of the script, one after the other, on the same directory
MaxRuns == 2
\* files of the script that the directory already holds before the first run
MaxPre == 2

\* ------------------------------------------------------------ file system
Absent == "absent"
UserContent == "user content"
Template == "template"
PrismaInitDefault == "prisma init default"
SeedMetronic == "seed.ts: admin@metronic.com"
SeedSkeleton == "seed.ts: user@example.com"

ENV == ".env"
ENV_EXAMPLE == ".env.example"
SCHEMA == "prisma/schema.prisma"
SEED == "prisma/seed.ts"
SRC_LIB_PRISMA == "src/lib/prisma.ts"
LIB_PRISMA == "lib/prisma.ts"
SRC_ROUTE == "src/app/api/health/route.ts"
APP_ROUTE == "app/api/health/route.ts"
LAYOUT == "src/app/layout.tsx"
PAGE == "src/app/page.tsx"
GLOBALS_CSS == "src/app/globals.css"
NEXT_CONFIG == "next.config.ts"
TSCONFIG == "tsconfig.json"
TAILWIND_CONFIG == "tailwind.config.ts"
POSTCSS_CONFIG == "postcss.config.js"
GITIGNORE == ".gitignore"

Variants == {"metronic", "skeleton", "quick"}

MetronicFiles == {ENV, SCHEMA, SEED, SRC_LIB_PRISMA, SRC_ROUTE}

QuickFiles == MetronicFiles \cup {LIB_PRISMA, APP_ROUTE}

SkeletonFiles ==
  MetronicFiles \cup {ENV_EXAMPLE, LAYOUT, PAGE, GLOBALS_CSS, NEXT_CONFIG,
                      TSCONFIG, TAILWIND_CONFIG, POSTCSS_CONFIG, GITIGNORE}

Paths == QuickFiles \cup SkeletonFiles

FilesOf(v) ==
  CASE v = "metronic" -> MetronicFiles
    [] v = "skeleton" -> SkeletonFiles
    [] v = "quick" -> QuickFiles

\* the directories mkdir -p makes for a path, and that a file there implies
DirsOf(p) ==
  CASE p \in {SCHEMA, SEED, "prisma"} -> {"prisma"}
    [] p \in {SRC_LIB_PRISMA, "src/lib"} -> {"src", "src/lib"}
    [] p \in {LIB_PRISMA, "lib"} -> {"lib"}
    [] p \in {SRC_ROUTE, "src/app/api/health"} ->
         {"src", "src/app", "src/app/api", "src/app/api/health"}
    [] p \in {APP_ROUTE, "app/api/health"} ->
         {"app", "app/api", "app/api/health"}
    [] p \in {LAYOUT, PAGE, GLOBALS_CSS, "src/app"} -> {"src", "src/app"}
    [] p = "src/components/ui" -> {"src", "src/components", "src/components/ui"}
    [] p = "src/types" -> {"src", "src/types"}
    [] p = "src" -> {"src"}
    [] p = "app" -> {"app"}
    [] OTHER -> {}

\* ----------------------------------------------------------- package.json
NoPackage == [exists |-> FALSE, deps |-> {}, scripts |-> {}]

DbAliases == {"db:generate", "db:push", "db:migrate", "db:seed", "db:studio"}

\* the five npm pkg set commands, in the order the script runs them
AliasOrder == <<"db:generate", "db:push", "db:migrate", "db:seed", "db:studio">>

SynthPackage ==
  [exists |-> TRUE,
   deps |-> {"@prisma/client", "next", "react", "react-dom", "@types/node",
             "@types/react", "@types/react-dom", "autoprefixer", "eslint",
             "eslint-config-next", "postcss", "prisma", "tailwindcss", "tsx",
             "typescript"},
   scripts |-> {"dev", "build", "start", "lint", "db:generate", "db:push",
                "db:migrate", "db:migrate:deploy", "db:seed", "db:studio"}]

\* grep -q <text> package.json: the text occurs among the declared packages
\* or the script names; grep fails on a missing file
GrepPackage(p, text) == p.exists /\ text \in (p.deps \cup p.scripts)

\* the package.json files a project may bring
PackageInputs ==
  {NoPackage,
   [exists |-> TRUE, deps |-> {"next"}, scripts |-> {"dev"}],
   [exists |-> TRUE, deps |-> {"next", "@prisma/client"}, scripts |-> {"dev"}],
   [exists |-> TRUE, deps |-> {"next", "@prisma/client", "prisma", "tsx"},
    scripts |-> {"dev"} \cup DbAliases]}

\* ------------------------------------------------------------------ state
VARIABLES
  variant,      \* which copy of setup.sh runs
  pc,           \* the command the script is at; DONE and ABORTED end a run
  exitCode,     \* exit status of the run, -1 while it runs
  fs,           \* path -> content
  dirs,         \* the directories that exist
  pkg,          \* package.json
  installed,    \* packages in node_modules
  dbUp,         \* the database accepts connections
  db,           \* the database: schema pushed, Account and Post records
  trace,        \* what this run did so far: commands, writes, log lines
  run,          \* number of the current run
  fs0,          \* fs when the current run started
  db0,          \* db when the current run started
  pkg0,         \* package.json when the current run started
  fsFirst,      \* fs before the first run
  prev,         \* how the previous run ended, "none" for the first run
  seedPc,       \* position of the seed process
  seedExit,     \* exit status of the seed process
  disconnected, \* the seed process has executed prisma.$disconnect()
  seedRuns      \* times the seed script was started, over all runs

\* the Next.js process that loads src/lib/prisma.ts and serves /api/health
VARIABLES
  nodeEnv,      \* process.env.NODE_ENV
  globalPrisma, \* globalThis.prisma: 0 for undefined, else a PrismaClient
  constructed,  \* PrismaClient instances constructed so far (their ids 1..)
  exports,      \* the instance each evaluation of prisma.ts exported
  now,          \* the clock new Date() reads
  thrown,       \* what the query of the last GET did
  response      \* the response of the last GET

\* a run of quick-setup.sh in a project directory
VARIABLES
  qpc,            \* the command quick-setup.sh is at
  qrun,           \* number of the current run of quick-setup.sh
  qfs,            \* path -> content, for the files quick-setup.sh touches
  qfsFirst,       \* qfs before the first run
  gitignore,      \* .gitignore: NoFile, or its lines
  gitignoreFirst  \* .gitignore before the first run

appVars == <<nodeEnv, globalPrisma, constructed, exports, now, thrown, response>>

quickVars == <<qpc, qrun, qfs, qfsFirst, gitignore, gitignoreFirst>>

setupVars == <<variant, pc, exitCode, fs, dirs, pkg, installed, dbUp, db, trace,
               run, fs0, db0, pkg0, fsFirst, prev, seedPc, seedExit,
               disconnected, seedRuns>>

vars == <<setupVars, appVars, quickVars>>

envVars == <<variant, run, fs0, db0, pkg0, fsFirst, prev, appVars, quickVars>>
seedVars == <<seedPc, seedExit, disconnected, seedRuns>>

\* ------------------------------------------------------------- trace events
Cmd(name, rc) == [k |-> "cmd", n |-> name, rc |-> rc]
Wrote(path) == [k |-> "write", n |-> path, rc |-> 0]
Logged(msg) == [k |-> "log", n |-> msg, rc |-> 0]

ExitCodes == {0, 1}

\* ------------------------------------------------------------ control flow
\* Steps with the schema + seed block moved in front of the .env write
StepsSchemaBeforeEnv(v) ==
  IF v = "skeleton"
  THEN <<"gate", "deps", "schema", "env", "envExample", "nextConfig",
         "tsconfig", "tailwind", "postcss", "mkdirs", "libPrisma", "route",
         "layout", "page", "css", "gitignore", "complete">>
  ELSE <<"gate", "deps", "schema", "env", "prismaDeps", "libPrisma", "route",
         "complete">>

\* the top-level commands of the script, top to bottom
Steps(v) ==
  IF v = "skeleton"
  THEN <<"gate", "deps", "env", "envExample", "schema", "nextConfig",
         "tsconfig", "tailwind", "postcss", "mkdirs", "libPrisma", "route",
         "layout", "page", "css", "gitignore", "complete">>
  ELSE <<"gate", "deps", "env", "prismaDeps", "schema", "libPrisma", "route",
         "complete">>

\* the command that follows a top-level command
After(label) ==
  LET s == Steps(variant)
      i == CHOOSE j \in 1..Len(s) : s[j] = label
  IN s[i + 1]

\* BlockOrder with the seed run before the client is generated and the schema
\* pushed
BlockOrderSeedFirst(v) ==
  IF v = "skeleton"
  THEN <<"init", "writeSchema", "writeSeed", "seed", "generate", "push">>
  ELSE <<"init", "writeSchema", "writeSeed", "aliases", "seed", "generate",
         "push">>

\* the commands inside "if [ ! -f prisma/schema.prisma ]", in order
BlockOrder(v) ==
  IF v = "skeleton"
  THEN <<"init", "writeSchema", "writeSeed", "generate", "push", "seed">>
  ELSE <<"init", "writeSchema", "writeSeed", "aliases", "generate", "push",
         "seed">>

\* the command that follows a command of the schema + seed block
BlockNext(label) ==
  LET s == BlockOrder(variant)
      i == CHOOSE j \in 1..Len(s) : s[j] = label
  IN IF i = Len(s) THEN After("schema") ELSE s[i + 1]

\* StrictFail as it would be without set -e: the script goes on
StrictFailIgnored(rc, next) == pc' = next /\ exitCode' = exitCode

\* set -e: a command that returns non-zero ends the script with that status
StrictFail(rc, next) ==
  IF rc = 0
  THEN pc' = next /\ exitCode' = exitCode
  ELSE pc' = "ABORTED" /\ exitCode' = rc

\* if [ ! -f path ]; then mkdir -p ...; cat > path; fi on files f and
\* directories d
Materialized(f, d, path, mkdirs) ==
  IF f[path] = Absent
  THEN [fs |-> [f EXCEPT ![path] = Template], dirs |-> d \cup mkdirs]
  ELSE [fs |-> f, dirs |-> d]

\* if [ ! -f path ]; then cat > path; fi, at the command named label
CreateStep(label, path, mkdirs) ==
  /\ pc = label
  /\ fs' = Materialized(fs, dirs, path, mkdirs).fs
  /\ dirs' = Materialized(fs, dirs, path, mkdirs).dirs
  /\ trace' = IF fs[path] = Absent THEN Append(trace, Wrote(path)) ELSE trace
  /\ pc' = After(label)
  /\ UNCHANGED <<exitCode, pkg, installed, dbUp, db>>
  /\ UNCHANGED envVars
  /\ UNCHANGED seedVars

\* ---------------------------------------------------------------- initial
\* files of quick-setup.sh
DEVCONTAINER_DIR == ".devcontainer"
DEVCONTAINER_JSON == ".devcontainer/devcontainer.json"
DOCKER_COMPOSE == ".devcontainer/docker-compose.yml"
DOCKERFILE == ".devcontainer/Dockerfile"
SETUP_SH == ".devcontainer/setup.sh"
GITATTRIBUTES == ".gitattributes"
README == "README.md"
README_BACKUP == "README.metronic.backup.md"

DevcontainerFiles == {DEVCONTAINER_JSON, DOCKER_COMPOSE, DOCKERFILE, SETUP_SH}

QuickSetupFiles ==
  DevcontainerFiles \cup {GITATTRIBUTES, ENV_EXAMPLE, README, README_BACKUP}

\* a text file: its lines, and whether the last of them ends in a newline
File(lines, eol) == [exists |-> TRUE, lines |-> lines, eol |-> eol]

\* a text file that does not exist
NoFile == [exists |-> FALSE, lines |-> <<>>, eol |-> TRUE]

NoResponse == [status |-> 0]

NoQuery == [kind |-> "none"]

\* no Next.js process runs
AppIdle ==
  /\ nodeEnv = "development"
  /\ globalPrisma = 0
  /\ constructed = 0
  /\ exports = <<>>
  /\ now = 0
  /\ thrown = NoQuery
  /\ response = NoResponse

\* quick-setup.sh is not run
QuickIdle ==
  /\ qpc = "idle"
  /\ qrun = 0
  /\ qfs = [p \in QuickSetupFiles \cup {DEVCONTAINER_DIR} |-> Absent]
  /\ qfsFirst = qfs
  /\ gitignore = NoFile
  /\ gitignoreFirst = NoFile

DirInputs(v) ==
  IF v = "quick" THEN {{}, {"src"}, {"app"}, {"src", "src/app"}} ELSE {{}}

EmptyDb == [pushed |-> FALSE, accounts |-> {}, posts |-> {}]

\* the database volume outlives the workspace: it is new, or it holds the
\* records a Metronic seed left there earlier
DbInputs ==
  {EmptyDb,
   [pushed |-> TRUE,
    accounts |-> {[id |-> 1, email |-> "admin@metronic.com",
                   name |-> "Admin User"]},
    posts |-> {[title |-> "Welcome to Metronic", published |-> TRUE,
                authorId |-> 1]}]}

Init ==
  /\ variant \in Variants
  /\ \E pre \in SUBSET FilesOf(variant) :
       /\ Cardinality(pre) <= MaxPre
       /\ fs = [p \in Paths |-> IF p \in pre THEN UserContent ELSE Absent]
       /\ \E extra \in DirInputs(variant) :
            dirs = UNION {DirsOf(p) : p \in pre} \cup extra
  /\ pkg \in PackageInputs
  /\ installed = {}
  /\ dbUp \in BOOLEAN
  /\ db \in DbInputs
  /\ pc = "gate"
  /\ exitCode = -1
  /\ trace = <<>>
  /\ run = 1
  /\ fs0 = fs
  /\ db0 = db
  /\ pkg0 = pkg
  /\ fsFirst = fs
  /\ prev = "none"
  /\ seedPc = "none"
  /\ seedExit = -1
  /\ disconnected = FALSE
  /\ seedRuns = 0
  /\ AppIdle
  /\ QuickIdle

\* ---------------------------------------------------------- readiness gate
FailedAttempts ==
  Cardinality({i \in 1..Len(trace) : trace[i] = Cmd("psql", 1)})

\* the database container starts accepting connections
DbStart ==
  /\ ~dbUp
  /\ dbUp' = TRUE
  /\ UNCHANGED <<pc, exitCode, fs, dirs, pkg, installed, db, trace>>
  /\ UNCHANGED envVars
  /\ UNCHANGED seedVars

\* Poll with the message printed on every attempt, the successful one too
PollLogsEveryAttempt ==
  /\ pc = "gate"
  /\ IF dbUp
     THEN /\ trace' = trace \o <<Cmd("psql", 0),
                                 Logged("PostgreSQL is unavailable - sleeping"),
                                 Logged("PostgreSQL is ready!")>>
          /\ pc' = After("gate")
     ELSE /\ FailedAttempts < MaxPolls
          /\ trace' = trace \o <<Cmd("psql", 1),
                                 Logged("PostgreSQL is unavailable - sleeping")>>
          /\ pc' = "gate"
  /\ UNCHANGED <<exitCode, fs, dirs, pkg, installed, dbUp, db>>
  /\ UNCHANGED envVars
  /\ UNCHANGED seedVars

\* Poll with the failed psql subject to set -e: the first refusal ends the run
PollStrict ==
  /\ pc = "gate"
  /\ IF dbUp
     THEN /\ trace' = trace \o <<Cmd("psql", 0), Logged("PostgreSQL is ready!")>>
          /\ pc' = After("gate")
          /\ exitCode' = exitCode
     ELSE /\ FailedAttempts < MaxPolls
          /\ trace' = Append(trace, Cmd("psql", 1))
          /\ pc' = "ABORTED"
          /\ exitCode' = 1
  /\ UNCHANGED <<fs, dirs, pkg, installed, dbUp, db>>
  /\ UNCHANGED envVars
  /\ UNCHANGED seedVars

\* Poll as a single attempt whose result is not tested: the script goes on
\* whether or not the database answered
PollOnce ==
  /\ pc = "gate"
  /\ trace' = IF dbUp
              THEN trace \o <<Cmd("psql", 0), Logged("PostgreSQL is ready!")>>
              ELSE trace \o <<Cmd("psql", 1), Logged("PostgreSQL is ready!")>>
  /\ pc' = After("gate")
  /\ UNCHANGED <<exitCode, fs, dirs, pkg, installed, dbUp, db>>
  /\ UNCHANGED envVars
  /\ UNCHANGED seedVars

\* Poll with a test that never succeeds: every attempt counts as refused
PollNeverReady ==
  /\ pc = "gate"
  /\ FailedAttempts < MaxPolls
  /\ trace' = trace \o <<Cmd("psql", 1),
                         Logged("PostgreSQL is unavailable - sleeping")>>
  /\ pc' = "gate"
  /\ UNCHANGED <<exitCode, fs, dirs, pkg, installed, dbUp, db>>
  /\ UNCHANGED envVars
  /\ UNCHANGED seedVars

\* one turn of "until psql ...; do echo; sleep 2; done", and the echo after it
Poll ==
  /\ pc = "gate"
  /\ IF dbUp
     THEN /\ trace' = trace \o <<Cmd("psql", 0), Logged("PostgreSQL is ready!")>>
          /\ pc' = After("gate")
     ELSE /\ FailedAttempts < MaxPolls
          /\ trace' = trace \o <<Cmd("psql", 1),
                                 Logged("PostgreSQL is unavailable - sleeping")>>
          /\ pc' = "gate"
  /\ UNCHANGED <<exitCode, fs, dirs, pkg, installed, dbUp, db>>
  /\ UNCHANGED envVars
  /\ UNCHANGED seedVars

\* ------------------------------------------------- dependencies and config
\* npm install: installs what package.json declares
NpmInstall ==
  /\ pc = "deps"
  /\ IF pkg.exists
     THEN \E rc \in ExitCodes :
            /\ trace' = Append(trace, Cmd("npm install", rc))
            /\ installed' = IF rc = 0 THEN installed \cup pkg.deps ELSE installed
            /\ StrictFail(rc, After("deps"))
            /\ pkg' = pkg
     ELSE IF variant = "skeleton"
     THEN /\ pkg' = SynthPackage
          /\ trace' = Append(trace, Wrote("package.json"))
          /\ pc' = "synthInstall"
          /\ UNCHANGED <<exitCode, installed>>
     ELSE /\ pc' = After("deps")
          /\ UNCHANGED <<exitCode, pkg, installed, trace>>
  /\ UNCHANGED <<fs, dirs, dbUp, db>>
  /\ UNCHANGED envVars
  /\ UNCHANGED seedVars

\* npm install after the skeleton script has written package.json
SynthInstall ==
  /\ pc = "synthInstall"
  /\ \E rc \in ExitCodes :
       /\ trace' = Append(trace, Cmd("npm install", rc))
       /\ installed' = IF rc = 0 THEN installed \cup pkg.deps ELSE installed
       /\ StrictFail(rc, After("deps"))
  /\ UNCHANGED <<fs, dirs, pkg, dbUp, db>>
  /\ UNCHANGED envVars
  /\ UNCHANGED seedVars

WriteEnv == CreateStep("env", ENV, {})

WriteEnvExample == CreateStep("envExample", ENV_EXAMPLE, {})

\* npm install <packages>: declares them in package.json, which npm creates
\* when there is none, and installs them
AddPackages(p, names) ==
  [exists |-> TRUE, deps |-> p.deps \cup names, scripts |-> p.scripts]

\* if ! grep -q "@prisma/client" package.json; then npm install @prisma/client
PrismaDeps ==
  /\ pc = "prismaDeps"
  /\ IF GrepPackage(pkg, "@prisma/client")
     THEN /\ pc' = After("prismaDeps")
          /\ UNCHANGED <<exitCode, pkg, installed, trace>>
     ELSE \E rc \in ExitCodes :
            /\ trace' = Append(trace, Cmd("npm install @prisma/client", rc))
            /\ pkg' = IF rc = 0 THEN AddPackages(pkg, {"@prisma/client"}) ELSE pkg
            /\ installed' = IF rc = 0 THEN installed \cup {"@prisma/client"}
                                      ELSE installed
            /\ StrictFail(rc, "prismaDev")
  /\ UNCHANGED <<fs, dirs, dbUp, db>>
  /\ UNCHANGED envVars
  /\ UNCHANGED seedVars

\* npm install -D prisma tsx
PrismaDev ==
  /\ pc = "prismaDev"
  /\ \E rc \in ExitCodes :
       /\ trace' = Append(trace, Cmd("npm install -D prisma tsx", rc))
       /\ pkg' = IF rc = 0 THEN AddPackages(pkg, {"prisma", "tsx"}) ELSE pkg
       /\ installed' = IF rc = 0 THEN installed \cup {"prisma", "tsx"}
                                 ELSE installed
       /\ StrictFail(rc, After("prismaDeps"))
  /\ UNCHANGED <<fs, dirs, dbUp, db>>
  /\ UNCHANGED envVars
  /\ UNCHANGED seedVars

\* ------------------------------------------------------------ schema + seed
Started(what) == [k |-> "start", n |-> what, rc |-> 0]

\* SchemaAbsent with the test dropped: the block runs in every run
SchemaNotTested == TRUE

\* [ ! -f "prisma/schema.prisma" ]
SchemaAbsent == fs[SCHEMA] = Absent

\* if [ ! -f "prisma/schema.prisma" ]; then ... fi
SchemaCheck ==
  /\ pc = "schema"
  /\ pc' = IF SchemaAbsent THEN "init" ELSE After("schema")
  /\ UNCHANGED <<exitCode, fs, dirs, pkg, installed, dbUp, db, trace>>
  /\ UNCHANGED envVars
  /\ UNCHANGED seedVars

\* npx prisma init: makes prisma/ and a default prisma/schema.prisma
PrismaInit ==
  /\ pc = "init"
  /\ \E rc \in ExitCodes :
       /\ trace' = Append(trace, Cmd("npx prisma init", rc))
       /\ fs' = IF rc = 0 THEN [fs EXCEPT ![SCHEMA] = PrismaInitDefault] ELSE fs
       /\ dirs' = IF rc = 0 THEN dirs \cup DirsOf("prisma") ELSE dirs
       /\ StrictFail(rc, BlockNext("init"))
  /\ UNCHANGED <<pkg, installed, dbUp, db>>
  /\ UNCHANGED envVars
  /\ UNCHANGED seedVars

\* cat > prisma/schema.prisma
WriteSchema ==
  /\ pc = "writeSchema"
  /\ fs' = [fs EXCEPT ![SCHEMA] = Template]
  /\ trace' = Append(trace, Wrote(SCHEMA))
  /\ pc' = BlockNext("writeSchema")
  /\ UNCHANGED <<exitCode, dirs, pkg, installed, dbUp, db>>
  /\ UNCHANGED envVars
  /\ UNCHANGED seedVars

\* the seed script each copy of setup.sh writes
SeedTemplate(v) == IF v = "skeleton" THEN SeedSkeleton ELSE SeedMetronic

\* mkdir -p prisma; cat > prisma/seed.ts
WriteSeed ==
  /\ pc = "writeSeed"
  /\ dirs' = dirs \cup DirsOf("prisma")
  /\ fs' = [fs EXCEPT ![SEED] = SeedTemplate(variant)]
  /\ trace' = Append(trace, Wrote(SEED))
  /\ pc' = BlockNext("writeSeed")
  /\ UNCHANGED <<exitCode, pkg, installed, dbUp, db>>
  /\ UNCHANGED envVars
  /\ UNCHANGED seedVars

\* if ! grep -q "db:seed" package.json; then npm pkg set scripts.db:... (five
\* commands; the first k of them succeed)
RegisterAliases ==
  /\ pc = "aliases"
  /\ IF GrepPackage(pkg, "db:seed")
     THEN /\ pc' = BlockNext("aliases")
          /\ UNCHANGED <<exitCode, pkg, trace>>
     ELSE \E k \in 0..Len(AliasOrder) :
            /\ pkg' = [exists |-> TRUE, deps |-> pkg.deps,
                       scripts |-> pkg.scripts \cup {AliasOrder[i] : i \in 1..k}]
            /\ trace' = trace \o
                 [i \in 1..(IF k = Len(AliasOrder) THEN k ELSE k + 1) |->
                    Cmd("npm pkg set", IF i <= k THEN 0 ELSE 1)]
            /\ StrictFail(IF k = Len(AliasOrder) THEN 0 ELSE 1,
                          BlockNext("aliases"))
  /\ UNCHANGED <<fs, dirs, installed, dbUp, db>>
  /\ UNCHANGED envVars
  /\ UNCHANGED seedVars

\* npx prisma generate
PrismaGenerate ==
  /\ pc = "generate"
  /\ \E rc \in ExitCodes :
       /\ trace' = Append(trace, Cmd("npx prisma generate", rc))
       /\ installed' = IF rc = 0 THEN installed \cup {".prisma/client"}
                                 ELSE installed
       /\ StrictFail(rc, BlockNext("generate"))
  /\ UNCHANGED <<fs, dirs, pkg, dbUp, db>>
  /\ UNCHANGED envVars
  /\ UNCHANGED seedVars

\* npx prisma db push
PrismaDbPush ==
  /\ pc = "push"
  /\ \E rc \in ExitCodes :
       /\ trace' = Append(trace, Cmd("npx prisma db push", rc))
       /\ db' = IF rc = 0 THEN [db EXCEPT !.pushed = TRUE] ELSE db
       /\ StrictFail(rc, BlockNext("push"))
  /\ UNCHANGED <<fs, dirs, pkg, installed, dbUp>>
  /\ UNCHANGED envVars
  /\ UNCHANGED seedVars

\* npm run db:seed starts "tsx prisma/seed.ts" when package.json defines the
\* db:seed script and tsx is installed, and fails at once otherwise
NpmRunSeed ==
  /\ pc = "seed"
  /\ IF "db:seed" \in pkg.scripts /\ "tsx" \in installed
     THEN /\ seedPc' = "main"
          /\ seedExit' = -1
          /\ disconnected' = FALSE
          /\ seedRuns' = seedRuns + 1
          /\ trace' = Append(trace, Started(SEED))
          /\ pc' = "seedWait"
          /\ exitCode' = exitCode
     ELSE /\ trace' = Append(trace, Cmd("npm run db:seed", 1))
          /\ StrictFail(1, BlockNext("seed"))
          /\ UNCHANGED seedVars
  /\ UNCHANGED <<fs, dirs, pkg, installed, dbUp, db>>
  /\ UNCHANGED envVars

\* ------------------------------------------------------ the seed script
\* SeedData with the nested posts left out
SeedDataWithoutPosts(content) ==
  IF content = SeedSkeleton
  THEN [email |-> "user@example.com", name |-> "Test User", posts |-> {}]
  ELSE [email |-> "admin@metronic.com", name |-> "Admin User", posts |-> {}]

\* the data of prisma.user.create in the seed script with that content
SeedData(content) ==
  IF content = SeedSkeleton
  THEN [email |-> "user@example.com", name |-> "Test User",
        posts |-> {[title |-> "First Post", published |-> TRUE],
                   [title |-> "Draft Post", published |-> FALSE]}]
  ELSE [email |-> "admin@metronic.com", name |-> "Admin User",
        posts |-> {[title |-> "Welcome to Metronic", published |-> TRUE]}]

\* prisma.user.create with nested posts, one transaction: the Account and
\* its Posts, each Post with the Account's id as authorId
CreateUser(d, data) ==
  LET id == Cardinality(d.accounts) + 1
  IN [d EXCEPT
        !.accounts = @ \cup {[id |-> id, email |-> data.email,
                              name |-> data.name]},
        !.posts = @ \cup {[title |-> p.title, published |-> p.published,
                           authorId |-> id] : p \in data.posts}]

\* main(): the create succeeds only on a pushed schema and a free email
\* (email is @unique), and may fail anyway
SeedMain ==
  /\ seedPc = "main"
  /\ LET data == SeedData(fs[SEED])
     IN \E ok \in BOOLEAN :
          IF /\ ok
             /\ db.pushed
             /\ \A a \in db.accounts : a.email # data.email
          THEN db' = CreateUser(db, data) /\ seedPc' = "resolved"
          ELSE db' = db /\ seedPc' = "rejected"
  /\ UNCHANGED <<pc, exitCode, fs, dirs, pkg, installed, dbUp, trace>>
  /\ UNCHANGED envVars
  /\ UNCHANGED <<seedExit, disconnected, seedRuns>>

\* .catch((e) => { console.error(...); process.exit(1) }): process.exit ends
\* the process at once, no later callback runs
SeedCatch ==
  /\ seedPc = "rejected"
  /\ seedPc' = "exited"
  /\ seedExit' = 1
  /\ UNCHANGED <<pc, exitCode, fs, dirs, pkg, installed, dbUp, db, trace>>
  /\ UNCHANGED envVars
  /\ UNCHANGED <<disconnected, seedRuns>>

\* .finally(async () => { await prisma.$disconnect() }), then the process ends
SeedFinally ==
  /\ seedPc = "resolved"
  /\ disconnected' = TRUE
  /\ seedPc' = "exited"
  /\ seedExit' = 0
  /\ UNCHANGED <<pc, exitCode, fs, dirs, pkg, installed, dbUp, db, trace>>
  /\ UNCHANGED envVars
  /\ UNCHANGED seedRuns

\* SeedWait as "npm run db:seed || true": the seed's status is dropped
SeedWaitIgnoresStatus ==
  /\ pc = "seedWait"
  /\ seedPc = "exited"
  /\ trace' = Append(trace, Cmd("npm run db:seed", seedExit))
  /\ pc' = BlockNext("seed")
  /\ UNCHANGED <<exitCode, fs, dirs, pkg, installed, dbUp, db>>
  /\ UNCHANGED envVars
  /\ UNCHANGED seedVars

\* npm run db:seed returns the seed process's status
SeedWait ==
  /\ pc = "seedWait"
  /\ seedPc = "exited"
  /\ trace' = Append(trace, Cmd("npm run db:seed", seedExit))
  /\ StrictFail(seedExit, BlockNext("seed"))
  /\ UNCHANGED <<fs, dirs, pkg, installed, dbUp, db>>
  /\ UNCHANGED envVars
  /\ UNCHANGED seedVars

\* ---------------------------------------------------------------- scaffold
WriteNextConfig == CreateStep("nextConfig", NEXT_CONFIG, {})

WriteTsconfig == CreateStep("tsconfig", TSCONFIG, {})

WriteTailwindConfig == CreateStep("tailwind", TAILWIND_CONFIG, {})

WritePostcssConfig == CreateStep("postcss", POSTCSS_CONFIG, {})

\* mkdir -p src/app/api/health src/components/ui src/lib src/types
MakeDirs ==
  /\ pc = "mkdirs"
  /\ dirs' = dirs \cup DirsOf("src/app/api/health")
                  \cup DirsOf("src/components/ui")
                  \cup DirsOf("src/lib") \cup DirsOf("src/types")
  /\ pc' = After("mkdirs")
  /\ UNCHANGED <<exitCode, fs, pkg, installed, dbUp, db, trace>>
  /\ UNCHANGED envVars
  /\ UNCHANGED seedVars

\* $LIB_DIR/prisma.ts: quick-setup.sh's copy picks src/lib when src/ exists
LibPathIn(d) ==
  IF variant = "quick" /\ "src" \notin d THEN LIB_PRISMA ELSE SRC_LIB_PRISMA

LibPath == LibPathIn(dirs)

\* $API_DIR/route.ts: quick-setup.sh's copy picks app/ when there is an app/
\* and no src/app/
RoutePathIn(d) ==
  IF variant = "quick" /\ "src/app" \notin d /\ "app" \in d
  THEN APP_ROUTE
  ELSE SRC_ROUTE

RoutePath == RoutePathIn(dirs)

WriteLibPrisma ==
  CreateStep("libPrisma", LibPath,
             IF variant = "skeleton" THEN {} ELSE DirsOf(LibPath))

WriteRoute ==
  CreateStep("route", RoutePath,
             IF variant = "skeleton" THEN {} ELSE DirsOf(RoutePath))

WriteLayout == CreateStep("layout", LAYOUT, {})

WritePage == CreateStep("page", PAGE, {})

WriteGlobalsCss == CreateStep("css", GLOBALS_CSS, {})

WriteGitignore == CreateStep("gitignore", GITIGNORE, {})

\* the scaffold writes of each copy of the script, in script order
ScaffoldOrder(v) ==
  IF v = "skeleton"
  THEN <<"libPrisma", "route", "layout", "page", "css">>
  ELSE <<"libPrisma", "route">>

\* one scaffold write, on files and directories s
ScaffoldWrite(label, s) ==
  CASE label = "libPrisma" ->
         Materialized(s.fs, s.dirs, LibPathIn(s.dirs),
                      IF variant = "skeleton" THEN {}
                      ELSE DirsOf(LibPathIn(s.dirs)))
    [] label = "route" ->
         Materialized(s.fs, s.dirs, RoutePathIn(s.dirs),
                      IF variant = "skeleton" THEN {}
                      ELSE DirsOf(RoutePathIn(s.dirs)))
    [] label = "layout" -> Materialized(s.fs, s.dirs, LAYOUT, {})
    [] label = "page" -> Materialized(s.fs, s.dirs, PAGE, {})
    [] label = "css" -> Materialized(s.fs, s.dirs, GLOBALS_CSS, {})

\* the scaffold writes done in the order of the sequence labels
RECURSIVE ScaffoldWrites(_, _)
ScaffoldWrites(labels, s) ==
  IF labels = <<>> THEN s
  ELSE ScaffoldWrites(Tail(labels), ScaffoldWrite(Head(labels), s))

\* echo "Setup complete!" and the end of the script
Complete ==
  /\ pc = "complete"
  /\ trace' = Append(trace, Logged("Setup complete!"))
  /\ pc' = "DONE"
  /\ exitCode' = 0
  /\ UNCHANGED <<fs, dirs, pkg, installed, dbUp, db>>
  /\ UNCHANGED envVars
  /\ UNCHANGED seedVars

\* ------------------------------------------------------------------- runs
Ended == pc \in {"DONE", "ABORTED"}

\* the operator runs the script again in the same directory
Rerun ==
  /\ Ended
  /\ run < MaxRuns
  /\ run' = run + 1
  /\ prev' = pc
  /\ fs0' = fs
  /\ db0' = db
  /\ pkg0' = pkg
  /\ pc' = "gate"
  /\ exitCode' = -1
  /\ trace' = <<>>
  /\ seedPc' = "none"
  /\ seedExit' = -1
  /\ disconnected' = FALSE
  /\ UNCHANGED <<variant, fsFirst, fs, dirs, pkg, installed, dbUp, db, seedRuns>>
  /\ UNCHANGED <<appVars, quickVars>>

Next ==
  \/ DbStart
  \/ Poll
  \/ NpmInstall
  \/ SynthInstall
  \/ WriteEnv
  \/ WriteEnvExample
  \/ PrismaDeps
  \/ PrismaDev
  \/ SchemaCheck
  \/ PrismaInit
  \/ WriteSchema
  \/ WriteSeed
  \/ RegisterAliases
  \/ PrismaGenerate
  \/ PrismaDbPush
  \/ NpmRunSeed
  \/ SeedMain
  \/ SeedCatch
  \/ SeedFinally
  \/ SeedWait
  \/ WriteNextConfig
  \/ WriteTsconfig
  \/ WriteTailwindConfig
  \/ WritePostcssConfig
  \/ MakeDirs
  \/ WriteLibPrisma
  \/ WriteRoute
  \/ WriteLayout
  \/ WritePage
  \/ WriteGlobalsCss
  \/ WriteGitignore
  \/ Complete
  \/ Rerun

Spec == Init /\ [][Next]_vars

\* the steps of the script and of the seed process it starts; the database
\* coming up and the operator running the script again are not among them
ScriptStep ==
  \/ Poll
  \/ NpmInstall
  \/ SynthInstall
  \/ WriteEnv
  \/ WriteEnvExample
  \/ PrismaDeps
  \/ PrismaDev
  \/ SchemaCheck
  \/ PrismaInit
  \/ WriteSchema
  \/ WriteSeed
  \/ RegisterAliases
  \/ PrismaGenerate
  \/ PrismaDbPush
  \/ NpmRunSeed
  \/ SeedMain
  \/ SeedCatch
  \/ SeedFinally
  \/ SeedWait
  \/ WriteNextConfig
  \/ WriteTsconfig
  \/ WriteTailwindConfig
  \/ WritePostcssConfig
  \/ MakeDirs
  \/ WriteLibPrisma
  \/ WriteRoute
  \/ WriteLayout
  \/ WritePage
  \/ WriteGlobalsCss
  \/ WriteGitignore
  \/ Complete

\* the shell runs the script's commands one after the other and each command
\* it starts returns: a step of the script that can be taken is taken
SpecFair == Init /\ [][Next]_vars /\ WF_vars(ScriptStep)

\* ============================================ the scaffolded Next.js app
MaxEvals == 3

MaxClock == 2

\* setup.sh is not run
SetupIdle ==
  /\ variant = "skeleton"
  /\ pc = "idle"
  /\ exitCode = -1
  /\ fs = [p \in Paths |-> Absent]
  /\ dirs = {}
  /\ pkg = NoPackage
  /\ installed = {}
  /\ dbUp = FALSE
  /\ db = EmptyDb
  /\ trace = <<>>
  /\ run = 0
  /\ fs0 = fs
  /\ db0 = db
  /\ pkg0 = pkg
  /\ fsFirst = fs
  /\ prev = "none"
  /\ seedPc = "none"
  /\ seedExit = -1
  /\ disconnected = FALSE
  /\ seedRuns = 0

NodeEnvs == {"production", "development", "test"}

\* outcomes of await prisma.$queryRaw`SELECT 1`: it resolves, or rejects with
\* an Error (whose message may be empty) or with a value that is not an Error
QueryOutcomes ==
  { [kind |-> "resolved"],
    [kind |-> "Error", message |-> "Can't reach database server at db:5432"],
    [kind |-> "Error", message |-> ""],
    [kind |-> "string", value |-> "ECONNREFUSED"],
    [kind |-> "undefined"] }

\* new Date().toISOString()
ToISOString(t) == <<"ISO-8601", t>>

\* error instanceof Error ? error.message : 'Unknown error'
ErrorText(error) ==
  IF error.kind = "Error" THEN error.message ELSE "Unknown error"

InitApp ==
  /\ SetupIdle
  /\ QuickIdle
  /\ nodeEnv \in NodeEnvs
  /\ globalPrisma = 0
  /\ constructed = 0
  /\ exports = <<>>
  /\ now = 0
  /\ thrown = NoQuery
  /\ response = NoResponse

\* prisma.ts without the assignment to globalThis
EvalPrismaModuleNeverStores ==
  /\ Len(exports) < MaxEvals
  /\ LET fresh == globalPrisma = 0
         prisma == IF fresh THEN constructed + 1 ELSE globalPrisma
     IN /\ constructed' = IF fresh THEN constructed + 1 ELSE constructed
        /\ exports' = Append(exports, prisma)
        /\ globalPrisma' = globalPrisma
  /\ UNCHANGED <<nodeEnv, now, thrown, response, setupVars, quickVars>>

\* one evaluation of the module prisma.ts (a first import, or a dev reload)
EvalPrismaModule ==
  /\ Len(exports) < MaxEvals
  /\ LET fresh == globalPrisma = 0
         prisma == IF fresh THEN constructed + 1 ELSE globalPrisma
     IN /\ constructed' = IF fresh THEN constructed + 1 ELSE constructed
        /\ exports' = Append(exports, prisma)
        /\ globalPrisma' = IF nodeEnv # "production" THEN prisma ELSE globalPrisma
  /\ UNCHANGED <<nodeEnv, now, thrown, response, setupVars, quickVars>>

\* time passes
Tick ==
  /\ now < MaxClock
  /\ now' = now + 1
  /\ UNCHANGED <<nodeEnv, globalPrisma, constructed, exports, thrown, response,
                 setupVars, quickVars>>

\* GET /api/health; route.ts imports prisma.ts, so that module was evaluated
GET ==
  /\ exports # <<>>
  /\ \E outcome \in QueryOutcomes :
       /\ thrown' = outcome
       /\ response' =
            IF outcome.kind = "resolved"
            THEN [status |-> 200,
                  body |-> [status |-> "ok",
                            timestamp |-> ToISOString(now),
                            database |-> "connected"]]
            ELSE [status |-> 503,
                  body |-> [status |-> "error",
                            timestamp |-> ToISOString(now),
                            database |-> "disconnected",
                            error |-> ErrorText(outcome)]]
  /\ UNCHANGED <<nodeEnv, globalPrisma, constructed, exports, now,
                 setupVars, quickVars>>

NextApp ==
  \/ EvalPrismaModule
  \/ Tick
  \/ GET

SpecApp == InitApp /\ [][NextApp]_vars

\* ======================================================= quick-setup.sh
\* contents of README.md and of its backup
EarlierBackup == "earlier backup"

RemoteReadme == "README.md of the repository"

FallbackReadme == "README.md of the here-document"

\* the lines quick-setup.sh appends to .gitignore
PrismaIgnoreLines == <<"", "# Prisma", "prisma/migrations/**/migration.sql">>

\* .gitignore before the first run
GitignoreInputs ==
  { NoFile,
    File(<<>>, TRUE),
    File(<<"node_modules", ".next">>, TRUE),
    File(<<"node_modules", ".next">>, FALSE),
    File(<<"node_modules", "/prisma/migrations/">>, TRUE),
    File(<<"node_modules", "prisma/migrations/**/migration.sql">>, FALSE),
    File(<<"node_modules">> \o PrismaIgnoreLines, TRUE) }

\* grep -q "prisma/migrations" .gitignore: some line contains the text
GrepPrismaMigrations(f) ==
  \E i \in 1..Len(f.lines) :
    f.lines[i] \in {"prisma/migrations/**/migration.sql", "/prisma/migrations/"}

\* echo text >> file: the text and a newline go after the last byte, so they
\* continue a last line that has no newline
EchoAppend(f, text) ==
  LET n == Len(f.lines)
  IN IF f.eol \/ n = 0
     THEN File(Append(f.lines, text), TRUE)
     ELSE File([f.lines EXCEPT ![n] = f.lines[n] \o text], TRUE)

QuickSteps ==
  <<"mkdir", "devcontainerJson", "dockerCompose", "dockerfile", "setupSh",
    "gitattributes", "gitignore", "envExample", "readmeBackup", "readmeCreate",
    "summary", "done">>

QuickAfter(label) ==
  QuickSteps[(CHOOSE i \in 1..Len(QuickSteps) : QuickSteps[i] = label) + 1]

InitQuick ==
  /\ SetupIdle
  /\ AppIdle
  /\ qpc = "mkdir"
  /\ qrun = 1
  /\ \E pre \in SUBSET QuickSetupFiles, dir \in {Absent, "directory"} :
       /\ Cardinality(pre) <= MaxPre
       /\ qfs = [p \in QuickSetupFiles \cup {DEVCONTAINER_DIR} |->
                  IF p = DEVCONTAINER_DIR
                  THEN (IF pre \cap DevcontainerFiles # {} THEN "directory" ELSE dir)
                  ELSE IF p \notin pre THEN Absent
                  ELSE IF p = README_BACKUP THEN EarlierBackup
                  ELSE UserContent]
  /\ qfsFirst = qfs
  /\ gitignore \in GitignoreInputs
  /\ gitignoreFirst = gitignore

\* mkdir -p .devcontainer
MakeDevcontainerDir ==
  /\ qpc = "mkdir"
  /\ qfs' = [qfs EXCEPT ![DEVCONTAINER_DIR] = "directory"]
  /\ qpc' = QuickAfter(qpc)
  /\ UNCHANGED <<qrun, qfsFirst, gitignore, gitignoreFirst, setupVars, appVars>>

\* cat > path << 'EOF', guarded by a test for the file
QuickWriteIfAbsent(label, path) ==
  /\ qpc = label
  /\ qfs' = IF qfs[path] = Absent THEN [qfs EXCEPT ![path] = Template] ELSE qfs
  /\ qpc' = QuickAfter(label)
  /\ UNCHANGED <<qrun, qfsFirst, gitignore, gitignoreFirst, setupVars, appVars>>

\* cat > path << 'EOF'
QuickWrite(label, path) ==
  /\ qpc = label
  /\ qfs' = [qfs EXCEPT ![path] = Template]
  /\ qpc' = QuickAfter(label)
  /\ UNCHANGED <<qrun, qfsFirst, gitignore, gitignoreFirst, setupVars, appVars>>

WriteDevcontainerJson == QuickWrite("devcontainerJson", DEVCONTAINER_JSON)

WriteDockerCompose == QuickWrite("dockerCompose", DOCKER_COMPOSE)

WriteDockerfile == QuickWrite("dockerfile", DOCKERFILE)

WriteSetupSh == QuickWrite("setupSh", SETUP_SH)

WriteGitattributes == QuickWrite("gitattributes", GITATTRIBUTES)

\* UpdateGitignore without the grep test: every run appends
UpdateGitignoreUntested ==
  /\ qpc = "gitignore"
  /\ gitignore' =
       IF gitignore.exists
       THEN EchoAppend(EchoAppend(EchoAppend(gitignore, PrismaIgnoreLines[1]),
                                  PrismaIgnoreLines[2]), PrismaIgnoreLines[3])
       ELSE gitignore
  /\ qpc' = QuickAfter(qpc)
  /\ UNCHANGED <<qrun, qfs, qfsFirst, gitignoreFirst, setupVars, appVars>>

\* the .gitignore update
UpdateGitignore ==
  /\ qpc = "gitignore"
  /\ gitignore' =
       IF gitignore.exists /\ ~GrepPrismaMigrations(gitignore)
       THEN EchoAppend(EchoAppend(EchoAppend(gitignore, PrismaIgnoreLines[1]),
                                  PrismaIgnoreLines[2]), PrismaIgnoreLines[3])
       ELSE gitignore
  /\ qpc' = QuickAfter(qpc)
  /\ UNCHANGED <<qrun, qfs, qfsFirst, gitignoreFirst, setupVars, appVars>>

CreateEnvExample == QuickWriteIfAbsent("envExample", ENV_EXAMPLE)

\* if [ -f README.md ]; then mv README.md README.metronic.backup.md; fi
BackupReadme ==
  /\ qpc = "readmeBackup"
  /\ qfs' = IF qfs[README] # Absent
            THEN [qfs EXCEPT ![README_BACKUP] = qfs[README], ![README] = Absent]
            ELSE qfs
  /\ qpc' = QuickAfter(qpc)
  /\ UNCHANGED <<qrun, qfsFirst, gitignore, gitignoreFirst, setupVars, appVars>>

\* curl -s URL > README.md || cat > README.md
CreateReadme ==
  /\ qpc = "readmeCreate"
  /\ \E rc \in ExitCodes :
       qfs' = [qfs EXCEPT ![README] = IF rc = 0 THEN RemoteReadme ELSE FallbackReadme]
  /\ qpc' = QuickAfter(qpc)
  /\ UNCHANGED <<qrun, qfsFirst, gitignore, gitignoreFirst, setupVars, appVars>>

\* the closing echo lines; the script exits 0
QuickSummary ==
  /\ qpc = "summary"
  /\ qpc' = QuickAfter(qpc)
  /\ UNCHANGED <<qrun, qfs, qfsFirst, gitignore, gitignoreFirst, setupVars, appVars>>

\* quick-setup.sh is run again in the same directory
QuickRerun ==
  /\ qpc = "done"
  /\ qrun < MaxRuns
  /\ qrun' = qrun + 1
  /\ qpc' = "mkdir"
  /\ UNCHANGED <<qfs, qfsFirst, gitignore, gitignoreFirst, setupVars, appVars>>

NextQuick ==
  \/ MakeDevcontainerDir
  \/ WriteDevcontainerJson
  \/ WriteDockerCompose
  \/ WriteDockerfile
  \/ WriteSetupSh
  \/ WriteGitattributes
  \/ UpdateGitignore
  \/ CreateEnvExample
  \/ BackupReadme
  \/ CreateReadme
  \/ QuickSummary
  \/ QuickRerun

SpecQuick == InitQuick /\ [][NextQuick]_vars

\* ================================================================= claims
\* indices of an event in this run's trace
Idx(e) == {i \in 1..Len(trace) : trace[i] = e}

Happened(e) == Idx(e) # {}

\* the artifacts the setup script materializes
Artifacts ==
  {ENV, ENV_EXAMPLE, SCHEMA, SEED, SRC_LIB_PRISMA, LIB_PRISMA, SRC_ROUTE,
   APP_ROUTE, LAYOUT, PAGE, GLOBALS_CSS}

\* C1: an artifact that exists before a run of the setup script has the same
\* content when the run has ended, in DONE or in ABORTED.
C1_ExistingArtifactsUnchanged ==
  Ended => \A a \in Artifacts : fs0[a] # Absent => fs[a] = fs0[a]

PrismaAndSeedCommands ==
  {c.n : c \in {Cmd("npx prisma init", 0), Cmd("npx prisma generate", 0),
                Cmd("npx prisma db push", 0), Cmd("npm run db:seed", 0)}}

\* C2: a run that follows a run that reached DONE creates no file, changes no
\* file content and invokes none of prisma init, prisma generate, prisma db
\* push and the seed.
C2_SecondRunChangesNothing ==
  prev = "DONE" =>
    /\ fs = fs0
    /\ \A i \in 1..Len(trace) :
         /\ trace[i].k = "cmd" => trace[i].n \notin PrismaAndSeedCommands
         /\ trace[i].k # "start"

\* C3: when the seed process has ended, on either path, it has executed
\* prisma.$disconnect().
C3_SeedAlwaysDisconnects == seedPc = "exited" => disconnected

\* C4: a run that reaches DONE, in a directory that had no schema descriptor
\* before the first run, has the schema pushed and the seed executed, also
\* when earlier runs aborted.
C4_DoneMeansPushedAndSeeded ==
  (pc = "DONE" /\ fsFirst[SCHEMA] = Absent) => (db.pushed /\ seedRuns >= 1)

\* C5: in a run in which prisma db push returned non-zero, the run is ABORTED
\* with a non-zero exit code, the seed script was never started, and the
\* failed push is the last thing the run did: no write follows it.
PushFailed == Happened(Cmd("npx prisma db push", 1))

C5_PushFailureAborts ==
  PushFailed =>
    /\ pc = "ABORTED"
    /\ exitCode # 0
    /\ ~Happened(Started(SEED))
    /\ trace[Len(trace)] = Cmd("npx prisma db push", 1)
    /\ seedPc = "none"

C5_Witness == PushFailed /\ Ended

\* C6: whenever the seed script is started, the run has before that, in this
\* order, written the schema descriptor, written the seed script, completed
\* prisma generate with status 0 and completed prisma db push with status 0;
\* neither command runs after the seed was started.
C6_SeedAfterGenerateAfterPush ==
  \A s \in Idx(Started(SEED)) :
    /\ \E w \in Idx(Wrote(SCHEMA)), x \in Idx(Wrote(SEED)),
          g \in Idx(Cmd("npx prisma generate", 0)),
          p \in Idx(Cmd("npx prisma db push", 0)) :
         w < x /\ x < g /\ g < p /\ p < s
    /\ \A i \in 1..Len(trace) :
         (i > s /\ trace[i].k = "cmd") =>
           trace[i].n \notin {"npx prisma generate", "npx prisma db push"}

C6_Witness == Happened(Started(SEED)) /\ pc = "DONE"

SchemaBlockEvents ==
  {"npx prisma init", "npm pkg set", "npx prisma generate",
   "npx prisma db push", "npm run db:seed", SCHEMA, SEED}

\* C7: a run that starts with the schema descriptor present does nothing of
\* the schema + seed block; over all runs the seed script is started at most
\* once; a run that found the schema absent and reached DONE started it
\* exactly once.
C7_SeedGatedOnSchemaAbsence ==
  /\ fs0[SCHEMA] # Absent =>
       \A i \in 1..Len(trace) : trace[i].n \notin SchemaBlockEvents
  /\ seedRuns <= 1
  /\ (pc = "DONE" /\ fs0[SCHEMA] = Absent) =>
       Cardinality(Idx(Started(SEED))) = 1

C7_Witness ==
  /\ run > 1
  /\ fsFirst[SCHEMA] = Absent
  /\ fs0[SCHEMA] # Absent
  /\ pc = "DONE"
  /\ seedRuns = 1

\* C8: a run that found no schema descriptor and no Account record and
\* reached DONE leaves exactly one Account, admin@metronic.com (Metronic
\* copies) or user@example.com (skeleton), with one respectively two Posts,
\* every Post referencing that Account.
C8_SeededRecords ==
  (pc = "DONE" /\ fs0[SCHEMA] = Absent /\ db0.accounts = {}) =>
    /\ Cardinality(db.accounts) = 1
    /\ \A a \in db.accounts :
         /\ a.email = IF variant = "skeleton" THEN "user@example.com"
                                             ELSE "admin@metronic.com"
         /\ \A p \in db.posts : p.authorId = a.id
    /\ Cardinality(db.posts) = IF variant = "skeleton" THEN 2 ELSE 1

C8_Witness ==
  /\ pc = "DONE"
  /\ fs0[SCHEMA] = Absent
  /\ db0.accounts = {}
  /\ variant = "skeleton"
  /\ Cardinality(db.posts) = 2

Unavailable == Idx(Logged("PostgreSQL is unavailable - sleeping"))

Ready == Idx(Logged("PostgreSQL is ready!"))

\* C9: a gate whose first N connection attempts failed has logged exactly N
\* "unavailable" messages; once the run is past the gate it has logged them
\* first, then exactly one "ready" message, and everything else it did
\* comes after that message.
C9_GateMessages ==
  /\ Cardinality(Unavailable) = FailedAttempts
  /\ pc = "gate" => Ready = {}
  /\ pc # "gate" =>
       /\ Cardinality(Ready) = 1
       /\ \A r \in Ready :
            /\ \A u \in Unavailable : u < r
            /\ \A i \in 1..Len(trace) :
                 (trace[i].k # "log" /\ trace[i].n # "psql") => i > r

C9_Witness ==
  pc \notin {"gate", "ABORTED"} /\ FailedAttempts = 3 /\ Len(trace) > 8

\* C10: while the database refuses connections a step of a run that is in
\* the gate leaves it in the gate, running: a refused attempt neither aborts
\* nor completes the run, however many attempts were refused before.
C10_GateNeverGivesUp ==
  [][(pc = "gate" /\ ~dbUp) => (pc' = "gate" /\ exitCode' = -1)]_vars

C10_Witness == pc = "gate" /\ ~dbUp /\ FailedAttempts = MaxPolls

\* the commands set -e watches that returned non-zero in this run (psql is
\* the condition of the until loop)
FailedCommands ==
  {i \in 1..Len(trace) :
     trace[i].k = "cmd" /\ trace[i].n # "psql" /\ trace[i].rc # 0}

\* C11: a run is DONE, with exit code 0, only if none of its commands
\* returned non-zero; once a command has returned non-zero the run is and
\* stays ABORTED with a non-zero exit code, and that command is the last
\* thing the run did; a run is ABORTED only for such a command.
C11_ExitStatus ==
  /\ pc = "DONE" => (exitCode = 0 /\ FailedCommands = {})
  /\ exitCode = 0 => pc = "DONE"
  /\ FailedCommands # {} =>
       /\ pc = "ABORTED"
       /\ exitCode # 0
       /\ FailedCommands = {Len(trace)}
  /\ pc = "ABORTED" => FailedCommands # {}

C11_Witness == pc = "ABORTED" /\ Happened(Cmd("npm run db:seed", 1))

\* the stage an event of the trace belongs to: 1 readiness gate, 2 dependency
\* materialization, 3 configuration, 4 schema + seed, 5 scaffold, 6 the end;
\* ormInstall is the stage given to the installation of @prisma/client,
\* prisma and tsx
StageOf(e, ormInstall) ==
  CASE e.n = "psql" \/ (e.k = "log" /\ e.n # "Setup complete!") -> 10
    [] e.n \in {"npm install", "package.json"} -> 20
    [] e.n \in {"npm install @prisma/client", "npm install -D prisma tsx"} ->
         ormInstall
    [] e.n \in {ENV, ENV_EXAMPLE} -> 30
    [] e.n \in {"npx prisma init", "npm pkg set", "npx prisma generate",
                "npx prisma db push", "npm run db:seed", SCHEMA, SEED} -> 40
    [] e.k = "log" /\ e.n = "Setup complete!" -> 60
    [] OTHER -> 50

\* no event is of an earlier stage than the event before it (so than any
\* event before it)
InStageOrder(ormInstall) ==
  \A i \in 1..(Len(trace) - 1) :
    StageOf(trace[i], ormInstall) <= StageOf(trace[i + 1], ormInstall)

\* C12 as stated: the stages of a run occur in the order gate, dependencies,
\* configuration, schema + seed, scaffold, every npm install, that of the
\* ORM client and its tools included, being of the dependency stage and so
\* before the write of .env.
C12_StagesInOrder == InStageOrder(20)

\* C12 as amended: the same order, with the installation of @prisma/client,
\* prisma and tsx (Metronic copies only) placed after the configuration stage
\* and before the schema + seed stage; the skeleton copy runs every npm
\* install before it writes .env.
C12_StagesInOrderOrmInstallAfterEnv ==
  /\ InStageOrder(35)
  /\ variant = "skeleton" =>
       \A i, j \in 1..Len(trace) :
         (trace[i].k = "write" /\ trace[i].n = ENV /\ trace[j].k = "cmd") =>
           (i < j => StageOf(trace[j], 20) # 20)

C12_Witness ==
  /\ pc = "DONE"
  /\ \E i \in Idx(Wrote(ENV)), j \in Idx(Cmd("npm install -D prisma tsx", 0)) :
       i < j
  /\ Happened(Started(SEED))

OrmPackages == {"@prisma/client", "prisma", "tsx"}

\* the run has invoked a command that needs the ORM client or its tools
OrmUsed ==
  \E i \in 1..Len(trace) :
    trace[i].n \in {"npx prisma init", "npx prisma generate",
                    "npx prisma db push", "npm run db:seed", SEED}
    /\ trace[i].k \in {"cmd", "start"}

\* C13: in a run that found a package.json that does not declare
\* @prisma/client, whenever prisma init, prisma generate, prisma db push or
\* the seed has been invoked, @prisma/client, prisma and tsx are declared in
\* package.json and installed.
C13_OrmAddedToExistingManifest ==
  (pkg0.exists /\ "@prisma/client" \notin pkg0.deps /\ OrmUsed) =>
    (OrmPackages \subseteq pkg.deps /\ OrmPackages \subseteq installed)

\* C14: in a run that found no package.json, once the run is past the
\* dependency stage it has written the fixed package.json and run npm install
\* on it.
C14_ManifestSynthesized ==
  (~pkg0.exists /\ pc \notin {"gate", "deps", "synthInstall", "ABORTED"}) =>
    /\ Happened(Wrote("package.json"))
    /\ \E w \in Idx(Wrote("package.json")), c \in Idx(Cmd("npm install", 0)) :
         w < c
    /\ pkg = SynthPackage

\* C15: in a run that executes the schema + seed block, when prisma generate
\* is invoked the five aliases db:generate, db:push, db:migrate, db:seed and
\* db:studio are defined in package.json, registered after the seed script
\* was written if package.json lacked db:seed.
C15_AliasesRegistered ==
  (\E rc \in ExitCodes : Happened(Cmd("npx prisma generate", rc))) =>
    /\ DbAliases \subseteq pkg.scripts
    /\ (pkg0.exists /\ "db:seed" \notin pkg0.scripts) =>
         \E w \in Idx(Wrote(SEED)), a \in Idx(Cmd("npm pkg set", 0)) : w < a

\* the orders in which the scaffold writes of this copy can be done
ScaffoldPermutations ==
  LET o == ScaffoldOrder(variant)
      n == Len(o)
  IN {[i \in 1..n |-> o[q[i]]] :
        q \in {f \in [1..n -> 1..n] : \A i, j \in 1..n : f[i] = f[j] => i = j}}

\* C18: where the scaffold stage begins, doing its writes in any order leaves
\* the same files with the same contents as doing them in script order.
C18_ScaffoldOrderInsensitive ==
  pc = "libPrisma" =>
    \A order \in ScaffoldPermutations :
      ScaffoldWrites(order, [fs |-> fs, dirs |-> dirs]).fs
        = ScaffoldWrites(ScaffoldOrder(variant), [fs |-> fs, dirs |-> dirs]).fs

\* C16: a health check answers 200 with status "ok", database "connected", a
\* timestamp and no error field when the query resolves; whatever the query
\* threw otherwise, it answers 503 with status "error", database
\* "disconnected", a timestamp and a non-empty error string.
C16_HealthResponse ==
  response # NoResponse =>
    IF thrown.kind = "resolved"
    THEN /\ response.status = 200
         /\ response.body.status = "ok"
         /\ response.body.database = "connected"
         /\ DOMAIN response.body = {"status", "timestamp", "database"}
    ELSE /\ response.status = 503
         /\ response.body.status = "error"
         /\ response.body.database = "disconnected"
         /\ DOMAIN response.body = {"status", "timestamp", "database", "error"}
         /\ response.body.error # ""

\* C17: outside production at most one PrismaClient is constructed however
\* often prisma.ts is evaluated, every evaluation exports the instance kept on
\* globalThis; in production nothing is stored on globalThis and every
\* evaluation constructs and exports a fresh instance.
C17_ClientSingleton ==
  /\ nodeEnv # "production" =>
       /\ constructed <= 1
       /\ \A i \in 1..Len(exports) : exports[i] = globalPrisma /\ exports[i] = 1
  /\ nodeEnv = "production" =>
       /\ globalPrisma = 0
       /\ constructed = Len(exports)
       /\ \A i \in 1..Len(exports) : exports[i] = i

C17_Witness ==
  /\ nodeEnv = "development"
  /\ Len(exports) >= 2
  /\ constructed = 1
  /\ globalPrisma = 1

\* C19: quick-setup.sh never replaces a devcontainer.json, docker-compose.yml,
\* Dockerfile, setup.sh, .gitattributes or .env.example that existed before it
\* ran; each still has the content it had.
C19_ExistingKitFilesKept ==
  \A p \in DevcontainerFiles \cup {GITATTRIBUTES, ENV_EXAMPLE} :
    qfsFirst[p] # Absent => qfs[p] = qfsFirst[p]

\* C20: a README.md that existed before the first run is never lost: at every
\* moment its content is in README.md or in README.metronic.backup.md, and
\* after any number of runs it is in the backup and a README.md exists.
C20_ReadmeBackedUp ==
  qfsFirst[README] # Absent =>
    /\ qfsFirst[README] \in {qfs[README], qfs[README_BACKUP]}
    /\ qpc = "done" => /\ qfs[README_BACKUP] = qfsFirst[README]
                       /\ qfs[README] # Absent

\* C21: whenever the run is at the command npm run db:seed, package.json
\* exists and defines a db:seed script, whatever package.json was before the
\* run.
C21_SeedAliasDefined ==
  pc = "seed" => (pkg.exists /\ "db:seed" \in pkg.scripts)

\* what a run does to the project or the database: a file written, an npm or
\* npx command, the seed script started
SideEffects ==
  {i \in 1..Len(trace) :
     \/ trace[i].k \in {"write", "start"}
     \/ trace[i].k = "cmd" /\ trace[i].n # "psql"}

\* C22: in every run each file write and each npm or prisma command comes
\* after a connection attempt that succeeded, and while the run is still in
\* the gate the files, package.json and the database are as the run found
\* them.
C22_GateBeforeSideEffects ==
  /\ \A i \in SideEffects : \E j \in Idx(Cmd("psql", 0)) : j < i
  /\ pc = "gate" => (SideEffects = {} /\ fs = fs0 /\ pkg = pkg0 /\ db = db0)

C22_Witness ==
  /\ Happened(Cmd("psql", 1))
  /\ Happened(Wrote(ENV))
  /\ Happened(Cmd("npx prisma generate", 0))
  /\ pc = "push"

\* C23: once the database accepts connections every run ends, in DONE or in
\* ABORTED; and a run in which the database accepts connections goes on to
\* DONE with exit status 0 unless one of its npm or npx commands returns
\* non-zero.
C23_Termination ==
  /\ dbUp ~> Ended
  /\ (dbUp /\ FailedCommands = {}) ~>
       ((pc = "DONE" /\ exitCode = 0) \/ FailedCommands # {})

C23_Witness ==
  /\ pc = "DONE"
  /\ exitCode = 0
  /\ run = 1
  /\ FailedAttempts = 2
  /\ Happened(Cmd("npm run db:seed", 0))
  /\ Happened(Logged("Setup complete!"))

\* how often the line prisma/migrations/**/migration.sql occurs in a file
MigrationLines(f) ==
  Cardinality({i \in 1..Len(f.lines) :
                 f.lines[i] = "prisma/migrations/**/migration.sql"})

\* everything the file held before the first run is still there, in place
GitignorePreserved ==
  /\ Len(gitignore.lines) >= Len(gitignoreFirst.lines)
  /\ SubSeq(gitignore.lines, 1, Len(gitignoreFirst.lines)) = gitignoreFirst.lines

\* C24 as stated: an absent .gitignore stays absent; an existing one keeps
\* its content, is unchanged when it already contained prisma/migrations, and
\* at the end of every run holds the line prisma/migrations/**/migration.sql
\* exactly once when that line did not occur before the first run.
C24_GitignoreLineOnce ==
  /\ ~gitignoreFirst.exists => gitignore = NoFile
  /\ gitignoreFirst.exists =>
       /\ gitignore.exists
       /\ GitignorePreserved
       /\ GrepPrismaMigrations(gitignoreFirst) => gitignore = gitignoreFirst
       /\ (qpc = "done" /\ MigrationLines(gitignoreFirst) = 0) =>
            MigrationLines(gitignore) = 1

\* C24: an absent .gitignore stays absent; an existing one keeps its
\* content, is unchanged when it already contained prisma/migrations, and
\* otherwise holds, at the end of every run, the three appended lines once:
\* the line prisma/migrations/**/migration.sql occurs exactly once.
C24_GitignoreIdempotent ==
  /\ ~gitignoreFirst.exists => gitignore = NoFile
  /\ gitignoreFirst.exists =>
       /\ gitignore.exists
       /\ GitignorePreserved
       /\ GrepPrismaMigrations(gitignoreFirst) => gitignore = gitignoreFirst
       /\ (qpc = "done" /\ ~GrepPrismaMigrations(gitignoreFirst)) =>
            /\ MigrationLines(gitignore) = 1
            /\ Len(gitignore.lines) <= Len(gitignoreFirst.lines) + Len(PrismaIgnoreLines)

C24_Witness ==
  /\ qpc = "done"
  /\ qrun = 2
  /\ gitignoreFirst.exists
  /\ ~GrepPrismaMigrations(gitignoreFirst)
  /\ ~gitignoreFirst.eol
  /\ MigrationLines(gitignore) = 1
================================================================================
